---- MODULE Spec2Model ----
(***************************************************************************)
(* Sanadenta scheduling gateway: the /free-slots and /create-booking       *)
(* handlers of the three revisions of the server found in the repository   *)
(* (src/unnamed/part_000, src/server.js lines 1-346 "first", src/server.js *)
(* lines 347-602 "second"), run against one shared calendar.               *)
(*                                                                         *)
(* Time: an instant is a whole number of minutes since 1970-01-01T00:00Z.  *)
(* A date string is a record [shape, y, m, d], a time string a record      *)
(* [shape, h, mi]; shape says whether the text matches the handlers'       *)
(* regular expressions.  A JS number is an integer or NaN.                 *)
(***************************************************************************)
EXTENDS Integers, Sequences, FiniteSets, Bags, TLC

VARIABLES rev, API_KEY, serverZone, events, pc, inp, loc, resp, calls, roundTrip, unit

vars == <<rev, API_KEY, serverZone, events, pc, inp, loc, resp, calls, roundTrip, unit>>

\* ------------------------------------------------------------------ bounds
\* The calendar holds at most MaxEvents events: no booking request is taken up
\* once it is full.
MaxEvents == 2

\* ------------------------------------------------------- program constants
WORK_START == [shape |-> "HH:MM", h |-> 8, mi |-> 0]
WORK_END == [shape |-> "HH:MM", h |-> 17, mi |-> 0]
SLOT_STEP_MINUTES == 15
DEFAULT_DURATION_MINUTES == 15
ALLOWED_DURATIONS == {15, 30, 60}
\* The fallback of the second revision and of part_000 (durationMinutes || 60).
FallbackDuration == 60
\* TIME_ZONE "Europe/Vilnius": UTC+2 on the dates of the model (February).
ClinicOffset == 120
\* The offset of the server process's local time zone (serverZone, in minutes
\* east of UTC), used by new Date(...) in part_000 and in the first revision.
ServerOffset == serverZone

SERVICE_DURATIONS ==
    ("Konsultacija" :> 15) @@ ("Konsultacija (15 min)" :> 15) @@
    ("Trumpas vizitas" :> 30) @@ ("Kontrole" :> 30) @@ ("Vizitas 30" :> 30) @@
    ("Vizitas" :> 60) @@ ("Vizitas 60" :> 60) @@ ("Ilgas vizitas" :> 60)

SERVICE_DURATIONS_2 ==
    ("Konsultacija" :> 15) @@ ("Trumpas vizitas" :> 30) @@ ("Vizitas" :> 60)

\* JS NaN, the value of Number("abc"): an integer no duration of the model takes.
NaN == 0 - 999

Revisions == {"part_000", "first", "second"}

\* ------------------------------------------------------------ calendar math
\* Days since 1970-01-01 of the proleptic Gregorian date y-m-d; a day beyond the
\* month's end rolls over into the next month, as MakeDay does.
DaysFromCivil(y, m, d) ==
    LET yy == IF m <= 2 THEN y - 1 ELSE y
        era == yy \div 400
        yoe == yy - era * 400
        mp == IF m > 2 THEN m - 3 ELSE m + 9
        doy == (153 * mp + 2) \div 5 + d - 1
        doe == yoe * 365 + yoe \div 4 - yoe \div 100 + doy
    IN  era * 146097 + doe - 719468

\* The inverse: the date [y, m, d] of a day number.
CivilFromDays(n) ==
    LET z == n + 719468
        era == z \div 146097
        doe == z - era * 146097
        yoe == (doe - doe \div 1460 + doe \div 36524 - doe \div 146096) \div 365
        doy == doe - (365 * yoe + yoe \div 4 - yoe \div 100)
        mp == (5 * doy + 2) \div 153
        d == doy - (153 * mp + 2) \div 5 + 1
        m == IF mp < 10 THEN mp + 3 ELSE mp - 9
        y == yoe + era * 400
    IN  [y |-> IF m <= 2 THEN y + 1 ELSE y, m |-> m, d |-> d]

IsLeap(y) == (y % 4 = 0 /\ y % 100 # 0) \/ y % 400 = 0

DaysInMonth(y, m) ==
    IF m = 2 THEN (IF IsLeap(y) THEN 29 ELSE 28)
    ELSE IF m \in {4, 6, 9, 11} THEN 30 ELSE 31

\* Date.prototype.getDay of a day number: 0 = Sunday .. 6 = Saturday.
GetDay(n) == (n + 4) % 7

\* luxon's DateTime.weekday of a day number: 1 = Monday .. 7 = Sunday.
LuxonWeekday(n) == IF GetDay(n) = 0 THEN 7 ELSE GetDay(n)

\* new Date(`${date}T00:00:00`): the local day number, or NaN (Invalid Date).
\* V8 takes a month 1..12 and a day 1..31 and lets the day roll over.
JsDay(date) ==
    IF date.shape = "YYYY-MM-DD" /\ date.m \in 1..12 /\ date.d \in 1..31
    THEN DaysFromCivil(date.y, date.m, 1) + date.d - 1
    ELSE NaN

\* DateTime.fromISO(date, {zone}).startOf("day"): the day number, or NaN for an
\* invalid DateTime (luxon refuses a day the month does not have).
LuxonDay(date) ==
    IF /\ date.shape = "YYYY-MM-DD"
       /\ date.m \in 1..12
       /\ date.d >= 1
       /\ date.d <= DaysInMonth(date.y, date.m)
    THEN DaysFromCivil(date.y, date.m, date.d)
    ELSE NaN

pad2Time(t) == [shape |-> "HH:MM", h |-> t \div 60, mi |-> t % 60]

toMinutes(hhmm) == hhmm.h * 60 + hhmm.mi

\* ------------------------------------------------------------------ helpers
\* First revision and part_000: new Date(`${date}T${time}:00`).getTime() in
\* minutes, or NaN for an Invalid Date.
JsInstant(date, time) ==
    IF JsDay(date) # NaN /\ time.shape = "HH:MM" /\ time.h <= 23 /\ time.mi <= 59
    THEN JsDay(date) * 1440 + toMinutes(time) - ServerOffset
    ELSE NaN

\* Second revision: dtLocal(date, time) as a UTC instant, or NaN for an invalid
\* DateTime.
dtLocal(date, time) ==
    IF LuxonDay(date) # NaN /\ time.shape = "HH:MM" /\ time.h <= 23 /\ time.mi <= 59
    THEN LuxonDay(date) * 1440 + toMinutes(time) - ClinicOffset
    ELSE NaN

\* First revision: isWeekdayAllowed(dateObj); getDay() of an Invalid Date is NaN.
isWeekdayAllowed(dayObj) ==
    dayObj # NaN /\ GetDay(dayObj) \in {1, 4, 5}

\* Second revision: isWeekdayAllowed(dt); weekday of an invalid DateTime is NaN.
isWeekdayAllowed2(dt) ==
    dt # NaN /\ LuxonWeekday(dt) \in {1, 4, 5}

\* new Date(year, monthIndex0 + 1, 0): the last day of the month of y-m.
LastDayOfMonth(y, m) ==
    IF m = 12 THEN DaysFromCivil(y + 1, 1, 1) - 1 ELSE DaysFromCivil(y, m + 1, 1) - 1

\* A slip of getLastMondayOfMonth: Sunday (getDay() = 0) is not set apart.
getLastMondayOfMonthNoSunday(y, m) ==
    LET lastDay == LastDayOfMonth(y, m)
    IN  DaysFromCivil(y, m, CivilFromDays(lastDay).d - (GetDay(lastDay) - 1))

\* First revision: getLastMondayOfMonth(year, monthIndex0), as a day number.
getLastMondayOfMonth(y, m) ==
    LET lastDay == LastDayOfMonth(y, m)
        d == GetDay(lastDay)
        diff == IF d >= 1 THEN d - 1 ELSE 6
    IN  DaysFromCivil(y, m, CivilFromDays(lastDay).d - diff)

\* A slip of isSurgeonDay: the first Monday of the month instead of the last.
isSurgeonDayFirstMonday(dayObj) ==
    GetDay(dayObj) = 1 /\ CivilFromDays(dayObj).d <= 7

\* First revision: isSurgeonDay(dateObj).
isSurgeonDay(dayObj) ==
    LET c == CivilFromDays(dayObj)
        lastMon == CivilFromDays(getLastMondayOfMonth(c.y, c.m))
    IN  c.y = lastMon.y /\ c.m = lastMon.m /\ c.d = lastMon.d

\* Second revision: getLastMondayOfMonth(dt), as a day number.
getLastMondayOfMonth2(dt) ==
    LET c == CivilFromDays(dt)
        lastDay == DaysFromCivil(c.y, c.m, DaysInMonth(c.y, c.m))
        diff == (LuxonWeekday(lastDay) - 1 + 7) % 7
    IN  lastDay - diff

\* Second revision: isSurgeonDay(dt).
isSurgeonDay2(dt) == dt = getLastMondayOfMonth2(dt)

\* The loop of generateDaySlots / generateSlots from minute t on.
RECURSIVE SlotLoop(_, _, _)
SlotLoop(t, latestStart, stepMinutes) ==
    IF t <= latestStart
    THEN <<pad2Time(t)>> \o SlotLoop(t + stepMinutes, latestStart, stepMinutes)
    ELSE <<>>

\* A slip of the loop bound: t < latestStart.
generateSlotsExclusive(startHHMM, endHHMM, stepMinutes, durationMinutes) ==
    SlotLoop(toMinutes(startHHMM), toMinutes(endHHMM) - durationMinutes - 1, stepMinutes)

\* generateDaySlots (first revision) and generateSlots (second revision): the
\* same loop; t <= NaN is false, so a NaN duration gives no slot.
generateSlots(startHHMM, endHHMM, stepMinutes, durationMinutes) ==
    IF durationMinutes = NaN
    THEN <<>>
    ELSE SlotLoop(toMinutes(startHHMM), toMinutes(endHHMM) - durationMinutes, stepMinutes)

\* A slip of overlaps: intervals that only touch count as overlapping.
overlapsTouching(aStart, aEnd, bStart, bEnd) == aStart <= bEnd /\ aEnd >= bStart

\* A slip of overlaps: the first interval must start inside the second.
overlapsStartInside(aStart, aEnd, bStart, bEnd) == bStart <= aStart /\ aStart < bEnd

overlaps(aStart, aEnd, bStart, bEnd) == aStart < bEnd /\ aEnd > bStart

\* busyRanges.some((b) => overlaps(startDateTime, endDateTime, b.start, b.end))
hasConflict(busyRanges, start, end) ==
    \E b \in busyRanges : overlaps(start, end, b.start, b.end)

\* First revision: resolveDuration({service, durationMinutes}).
resolveDuration(service, durationMinutes) ==
    IF durationMinutes.given
    THEN IF durationMinutes.n = NaN
         THEN [ok |-> FALSE, error |-> "Invalid durationMinutes",
               duration |-> 0, source |-> ""]
         ELSE IF durationMinutes.n \notin ALLOWED_DURATIONS
         THEN [ok |-> FALSE, error |-> "durationMinutes must be one of: 15, 30, 60",
               duration |-> 0, source |-> ""]
         ELSE [ok |-> TRUE, error |-> "", duration |-> durationMinutes.n,
               source |-> "durationMinutes"]
    ELSE IF service # "" /\ service \in DOMAIN SERVICE_DURATIONS
    THEN [ok |-> TRUE, error |-> "", duration |-> SERVICE_DURATIONS[service],
          source |-> "service"]
    ELSE [ok |-> TRUE, error |-> "", duration |-> DEFAULT_DURATION_MINUTES,
          source |-> "default"]

\* Second revision, GET /free-slots: the duration from service, else from
\* durationMinutes, else 60.
resolveDurationList2(service, durationRaw) ==
    IF service # "" /\ service \in DOMAIN SERVICE_DURATIONS_2
    THEN SERVICE_DURATIONS_2[service]
    ELSE IF durationRaw.given THEN durationRaw.n ELSE FallbackDuration

\* Second revision, POST /create-booking: Number(durationMinutes || 60).
resolveDurationBook2(durationMinutes) ==
    IF durationMinutes.given /\ durationMinutes.n # 0
    THEN durationMinutes.n
    ELSE FallbackDuration

\* part_000: the destructuring default durationMinutes = 60, then Number(...).
resolveDurationBook0(durationMinutes) ==
    IF durationMinutes.given THEN durationMinutes.n ELSE FallbackDuration

validateWithinWorkingHours(time, duration) ==
    LET startMin == toMinutes(time)
        endMin == startMin + duration
    IN  startMin >= toMinutes(WORK_START) /\ endMin <= toMinutes(WORK_END)

\* ----------------------------------------------------------------- requests
\* The x-api-key header of a request is a text, "" when the header is absent;
\* API_KEY is "" when process.env.API_KEY is not set.
NoDate == [shape |-> "", y |-> 0, m |-> 0, d |-> 0]
BadDate == [shape |-> "26.02.2026", y |-> 0, m |-> 0, d |-> 0]
DateStr(y, m, d) == [shape |-> "YYYY-MM-DD", y |-> y, m |-> m, d |-> d]
NoTime == [shape |-> "", h |-> 0, mi |-> 0]
BadTime == [shape |-> "9am", h |-> 0, mi |-> 0]
TimeStr(h, mi) == [shape |-> "HH:MM", h |-> h, mi |-> mi]
DurAbsent == [given |-> FALSE, n |-> 0]
DurValue(n) == [given |-> TRUE, n |-> n]

\* 2026-02-23: the last Monday of February 2026; 2026-02-24: a Tuesday;
\* 2026-02-26: a Thursday.
Dates == {NoDate, BadDate, DateStr(2026, 2, 23), DateStr(2026, 2, 24), DateStr(2026, 2, 26)}
Times == {NoTime, BadTime, TimeStr(7, 45), TimeStr(16, 0), TimeStr(16, 45)}
Names == {"", "Jonas"}
Phones == {"", "+37060000000"}
Services == {"", "Konsultacija", "Vizitas", "Higiena"}
Durations == {DurAbsent, DurValue(60), DurValue(45), DurValue(NaN)}

BookRequests ==
    [op : {"book"}, apiKey : {""}, name : Names, phone : Phones, date : Dates, time : Times,
     service : Services, durationMinutes : Durations]

ListRequests ==
    [op : {"list"}, apiKey : {""}, name : {""}, phone : {""}, date : Dates, time : {NoTime},
     service : Services, durationMinutes : Durations]

NoRequest ==
    [op |-> "", apiKey |-> "", name |-> "", phone |-> "", date |-> NoDate, time |-> NoTime,
     service |-> "", durationMinutes |-> DurAbsent]

\* ---------------------------------------------------------------- responses
NoResp ==
    [status |-> 0, error |-> "", ok |-> FALSE, allowed |-> FALSE, reason |-> "",
     slots |-> <<>>, durationMinutes |-> 0, durationSource |-> "", success |-> FALSE,
     reservedUntil |-> NoTime, details |-> ""]

ErrorResp(status, error) == [NoResp EXCEPT !.status = status, !.error = error]

NoLoc ==
    [dur |-> 0, source |-> "", start |-> 0, end |-> 0, timeMin |-> 0, timeMax |-> 0]

\* The handler answers and ends.
Reply(r) == [pc |-> "done", resp |-> r, loc |-> NoLoc, call |-> <<>>]

\* The handler calls the provider and is suspended at the await.
Await(at, call, l) == [pc |-> at, resp |-> NoResp, loc |-> l, call |-> <<call>>]

\* The catch block of every handler.
ServerError == Reply(ErrorResp(500, "Server error"))

\* A slip of the catch block: the provider call that failed is made again.
ProviderFailureRetried(call, l) ==
    [pc |-> IF call = "queryBusy" THEN "awaitBusy" ELSE "awaitInsert",
     resp |-> NoResp, loc |-> l, call |-> <<call>>]

\* The catch block when an awaited provider call rejects: the response carries
\* the error's message in details (here: the name of the call that failed).
ProviderFailure(call, l) ==
    Reply([ErrorResp(500, "Server error") EXCEPT !.details = call])

\* ------------------------------------------------ the provider (collaborator)
\* freebusy.query: the busy intervals of the calendar that intersect the window.
QueryBusy(timeMin, timeMax) ==
    {e \in BagToSet(events) : e.start < timeMax /\ e.end > timeMin}

\* A provider that would refuse the insert of an interval that is no longer
\* free (the calendar API does not).
ProviderAcceptsIfFree(l) ==
    /\ l.timeMin # NaN /\ l.timeMax # NaN /\ l.start # NaN /\ l.end # NaN
    /\ \A e \in BagToSet(events) : ~(l.start < e.end /\ e.start < l.end)

\* The provider answers a request whose timestamps are well formed; it rejects
\* "Invalid DateTime".
ProviderAccepts(l) == l.timeMin # NaN /\ l.timeMax # NaN /\ l.start # NaN /\ l.end # NaN

\* ------------------------------------------------ first revision: /free-slots
NotAllowedResp(reason, dur) ==
    [NoResp EXCEPT !.status = 200, !.ok = TRUE, !.allowed = FALSE,
                   !.reason = reason, !.durationMinutes = dur]

\* Up to the await of getBusyRanges.
FreeSlots1(i) ==
    IF i.date.shape # "YYYY-MM-DD"
    THEN Reply(ErrorResp(400, "Invalid date. Use YYYY-MM-DD"))
    ELSE LET resolved == resolveDuration(i.service, i.durationMinutes)
             dayObj == JsDay(i.date)
         IN  IF ~resolved.ok
             THEN Reply(ErrorResp(400, resolved.error))
             ELSE IF ~isWeekdayAllowed(dayObj)
             THEN Reply(NotAllowedResp("Clinic does not work this day (allowed: Mon/Thu/Fri).",
                                       resolved.duration))
             ELSE IF isSurgeonDay(dayObj)
             THEN Reply(NotAllowedResp("Surgeon day (manual scheduling via administrator).",
                                       resolved.duration))
             ELSE \* timeMax is 23:59:59 of the day: for instants in whole minutes,
                  \* x < 23:59:59 iff x < 24:00.
                  Await("awaitBusy", "queryBusy",
                        [NoLoc EXCEPT !.dur = resolved.duration, !.source = resolved.source,
                                      !.timeMin = dayObj * 1440 - ServerOffset,
                                      !.timeMax = dayObj * 1440 + 1440 - ServerOffset])

\* A slip of the filter: a slot is kept when some busy range leaves it free.
FreeSlots1BusySomeFree(i, l, busyRanges) ==
    LET candidateSlots == generateSlots(WORK_START, WORK_END, SLOT_STEP_MINUTES, l.dur)
        free(hhmm) ==
            LET start == JsInstant(i.date, hhmm)
                end == start + l.dur
            IN  \E b \in busyRanges : ~overlaps(start, end, b.start, b.end)
    IN  Reply([NoResp EXCEPT !.status = 200, !.ok = TRUE, !.allowed = TRUE,
                             !.durationMinutes = l.dur, !.durationSource = l.source,
                             !.slots = SelectSeq(candidateSlots, free)])

\* From the return of getBusyRanges on.
FreeSlots1Busy(i, l, busyRanges) ==
    LET candidateSlots == generateSlots(WORK_START, WORK_END, SLOT_STEP_MINUTES, l.dur)
        free(hhmm) ==
            LET start == JsInstant(i.date, hhmm)
                end == start + l.dur
            IN  \A b \in busyRanges : ~overlaps(start, end, b.start, b.end)
    IN  Reply([NoResp EXCEPT !.status = 200, !.ok = TRUE, !.allowed = TRUE,
                             !.durationMinutes = l.dur, !.durationSource = l.source,
                             !.slots = SelectSeq(candidateSlots, free)])

\* -------------------------------------------- first revision: /create-booking
CreateBooking1(i) ==
    IF i.name = "" \/ i.phone = "" \/ i.date.shape = "" \/ i.time.shape = ""
    THEN Reply(ErrorResp(400, "Missing required fields: name, phone, date, time"))
    ELSE IF i.date.shape # "YYYY-MM-DD"
    THEN Reply(ErrorResp(400, "Invalid date. Use YYYY-MM-DD"))
    ELSE IF i.time.shape # "HH:MM"
    THEN Reply(ErrorResp(400, "Invalid time. Use HH:MM"))
    ELSE LET service == IF i.service = "" THEN "Konsultacija" ELSE i.service
             resolved == resolveDuration(service, i.durationMinutes)
             dayObj == JsDay(i.date)
             startDateTime == JsInstant(i.date, i.time)
         IN  IF ~resolved.ok
             THEN Reply(ErrorResp(400, resolved.error))
             ELSE IF ~isWeekdayAllowed(dayObj)
             THEN Reply(ErrorResp(400, "Clinic does not work this day (allowed: Mon/Thu/Fri)."))
             ELSE IF isSurgeonDay(dayObj)
             THEN Reply(ErrorResp(400, "Surgeon day. Please schedule via administrator."))
             ELSE IF ~validateWithinWorkingHours(i.time, resolved.duration)
             THEN \* The code writes an en dash between the two times.
                  Reply(ErrorResp(400, "Outside working hours (08:00-17:00)."))
             ELSE IF startDateTime = NaN
             THEN Reply(ErrorResp(400, "Invalid date/time format"))
             ELSE Await("awaitBusy", "queryBusy",
                        [dur |-> resolved.duration, source |-> resolved.source,
                         start |-> startDateTime,
                         end |-> startDateTime + resolved.duration,
                         timeMin |-> dayObj * 1440 - ServerOffset,
                         timeMax |-> dayObj * 1440 + 1440 - ServerOffset])

\* A slip of the conflict check: on a conflict the calendar is queried again.
CreateBooking1BusyRechecked(i, l, busyRanges) ==
    IF hasConflict(busyRanges, l.start, l.end)
    THEN Await("awaitBusy", "queryBusy", l)
    ELSE Await("awaitInsert", "insertEvent", l)

CreateBooking1Busy(i, l, busyRanges) ==
    IF hasConflict(busyRanges, l.start, l.end)
    THEN Reply(ErrorResp(409, "Time slot is already booked. Please choose another time."))
    ELSE Await("awaitInsert", "insertEvent", l)

\* ----------------------------------------------- second revision: /free-slots
FreeSlots2(i) ==
    IF i.date.shape # "YYYY-MM-DD"
    THEN Reply(ErrorResp(400, "Invalid date"))
    ELSE LET duration == resolveDurationList2(i.service, i.durationMinutes)
             dayStart == LuxonDay(i.date)
         IN  IF ~isWeekdayAllowed2(dayStart)
             THEN Reply([NoResp EXCEPT !.status = 200, !.ok = TRUE, !.allowed = FALSE])
             ELSE IF isSurgeonDay2(dayStart)
             THEN Reply([NoResp EXCEPT !.status = 200, !.ok = TRUE, !.allowed = FALSE])
             ELSE \* timeMin and timeMax are wall-clock texts without offset, sent with
                  \* timeZone: TIME_ZONE; the provider reads them in that zone.
                  Await("awaitBusy", "queryBusy",
                        [NoLoc EXCEPT !.dur = duration,
                                      !.timeMin = dayStart * 1440 - ClinicOffset,
                                      !.timeMax = (dayStart + 1) * 1440 - ClinicOffset])

FreeSlots2Busy(i, l, busy) ==
    LET slots == generateSlots(WORK_START, WORK_END, SLOT_STEP_MINUTES, l.dur)
        free(t) ==
            LET s == dtLocal(i.date, t)
                e == s + l.dur
            IN  ~(\E b \in busy : overlaps(s, e, b.start, b.end))
    IN  Reply([NoResp EXCEPT !.status = 200, !.ok = TRUE, !.allowed = TRUE,
                             !.durationMinutes = l.dur,
                             !.slots = SelectSeq(slots, free)])

\* ------------------------------------------- second revision: /create-booking
CreateBooking2(i) ==
    IF i.name = "" \/ i.phone = "" \/ i.date.shape = "" \/ i.time.shape = ""
    THEN Reply(ErrorResp(400, "Missing fields"))
    ELSE LET duration == resolveDurationBook2(i.durationMinutes)
             startDT == dtLocal(i.date, i.time)
         IN  IF startDT # NaN /\ duration = NaN
             THEN \* startDT.plus({minutes: NaN}) throws; plus on an invalid
                  \* DateTime returns it unchanged.
                  ServerError
             ELSE LET endDT == IF startDT = NaN THEN NaN ELSE startDT + duration
                  IN  Await("awaitBusy", "queryBusy",
                            [dur |-> duration, source |-> "", start |-> startDT,
                             end |-> endDT, timeMin |-> startDT, timeMax |-> endDT])

CreateBooking2Busy(i, l, busy) ==
    IF \E b \in busy : overlaps(l.start, l.end, b.start, b.end)
    THEN Reply(ErrorResp(409, "Time slot already booked"))
    ELSE Await("awaitInsert", "insertEvent", l)

\* --------------------------------------------------- part_000: /create-booking
CreateBooking0(i) ==
    IF i.name = "" \/ i.phone = "" \/ i.date.shape = "" \/ i.time.shape = ""
    THEN Reply(ErrorResp(400, "Missing required fields: name, phone, date, time"))
    ELSE LET startDateTime == JsInstant(i.date, i.time)
             durationMinutes == resolveDurationBook0(i.durationMinutes)
         IN  IF startDateTime = NaN
             THEN Reply(ErrorResp(400, "Invalid date/time format"))
             ELSE IF durationMinutes = NaN
             THEN \* endDateTime is an Invalid Date: toISOString() throws.
                  ServerError
             ELSE Await("awaitInsert", "insertEvent",
                        [NoLoc EXCEPT !.dur = durationMinutes, !.start = startDateTime,
                                      !.end = startDateTime + durationMinutes])

\* The success response of /create-booking: the first revision echoes the
\* duration and its source, the second the end of the booking on the clinic's
\* clock (endDT.toFormat("HH:mm")), part_000 neither.
CreatedResp(r, l) ==
    CASE r = "first" ->
            [NoResp EXCEPT !.status = 200, !.success = TRUE, !.durationMinutes = l.dur,
                           !.durationSource = l.source]
      [] r = "second" ->
            [NoResp EXCEPT !.status = 200, !.success = TRUE,
                           !.reservedUntil = pad2Time((l.end + ClinicOffset) % 1440)]
      [] r = "part_000" ->
            [NoResp EXCEPT !.status = 200, !.success = TRUE]

\* ------------------------------------------------------------------ routing
\* A slip of requireApiKey: a request without the header is let through.
requireApiKeyOptional(key, incoming) == key = "" \/ incoming = "" \/ incoming = key

\* requireApiKey of the first revision and of part_000: TRUE when next() is
\* called, FALSE when the request is answered 401.
requireApiKey(key, incoming) == key = "" \/ ~(incoming = "" \/ incoming # key)

\* requireApiKey of the second revision.
requireApiKey2(key, incoming) == key = "" \/ ~(incoming # key)

Unauthorized == Reply(ErrorResp(401, "Unauthorized"))

\* part_000 has no /free-slots route.
Routes(r) == IF r = "part_000" THEN {"book"} ELSE {"list", "book"}

Handle(r, i) ==
    CASE r = "first" /\ i.op = "list" -> FreeSlots1(i)
      [] r = "first" /\ i.op = "book" -> CreateBooking1(i)
      [] r = "second" /\ i.op = "list" -> FreeSlots2(i)
      [] r = "second" /\ i.op = "book" -> CreateBooking2(i)
      [] r = "part_000" /\ i.op = "book" -> CreateBooking0(i)

HandleBusy(r, i, l, busy) ==
    CASE r = "first" /\ i.op = "list" -> FreeSlots1Busy(i, l, busy)
      [] r = "first" /\ i.op = "book" -> CreateBooking1Busy(i, l, busy)
      [] r = "second" /\ i.op = "list" -> FreeSlots2Busy(i, l, busy)
      [] r = "second" /\ i.op = "book" -> CreateBooking2Busy(i, l, busy)

\* ------------------------------------------------------------- state machine
\* unit holds one call of a helper function made on its own: the arguments, and
\* the result once the call has returned.  No helper is called on its own while
\* the server handles requests.
NoUnit == [fn |-> "", args |-> <<>>, returned |-> FALSE, result |-> <<>>]

Procs == {1, 2}

\* The handler activations of the sequential specification: one request at a time.
SeqProcs == {1}

\* The requests that follow a listing answered 200 to activation p: a booking
\* with the listing's date, service and durationMinutes and one of the listed
\* slots as time.
BookingsOfListing(p) ==
    {i \in BookRequests :
        /\ i.name = "Jonas"
        /\ i.phone # ""
        /\ i.date = inp[p].date
        /\ i.service = inp[p].service
        /\ i.durationMinutes = inp[p].durationMinutes
        /\ \E k \in 1..Len(resp[p].slots) : resp[p].slots[k] = i.time}

\* The server with no API key configured (open access), its process running
\* in the clinic's time zone.
Init ==
    /\ rev \in Revisions
    /\ API_KEY = ""
    /\ serverZone = ClinicOffset
    /\ events = EmptyBag
    /\ pc = [p \in Procs |-> "idle"]
    /\ inp = [p \in Procs |-> NoRequest]
    /\ loc = [p \in Procs |-> NoLoc]
    /\ resp = [p \in Procs |-> NoResp]
    /\ calls = [p \in Procs |-> <<>>]
    /\ roundTrip = [p \in Procs |-> FALSE]
    /\ unit = NoUnit

\* The handler of request i runs up to its first await or its response.
Start(p, i, isRoundTrip) ==
    /\ i.op \in Routes(rev)
    /\ i.op = "book" => BagCardinality(events) < MaxEvents
    /\ LET passed == IF rev = "second"
                      THEN requireApiKey2(API_KEY, i.apiKey)
                      ELSE requireApiKey(API_KEY, i.apiKey)
           r == IF passed THEN Handle(rev, i) ELSE Unauthorized
       IN  /\ pc' = [pc EXCEPT ![p] = r.pc]
           /\ inp' = [inp EXCEPT ![p] = i]
           /\ loc' = [loc EXCEPT ![p] = r.loc]
           /\ resp' = [resp EXCEPT ![p] = r.resp]
           /\ calls' = [calls EXCEPT ![p] = r.call]
           /\ roundTrip' = [roundTrip EXCEPT ![p] = isRoundTrip]
    /\ UNCHANGED <<rev, API_KEY, serverZone, unit, events>>

\* A request arrives.
Receive(p) ==
    /\ pc[p] = "idle"
    /\ \E i \in BookRequests \cup ListRequests : Start(p, i, FALSE)

\* The caller of a listing books one of the listed slots at once, with the
\* listing's parameters.
BookListedSlot(p) ==
    /\ pc[p] = "done"
    /\ inp[p].op = "list"
    /\ resp[p].status = 200
    /\ \E i \in BookingsOfListing(p) : Start(p, i, TRUE)

\* freebusy.query returns (or fails) and the handler runs on to its next await
\* or its response.
BusyReturn(p) ==
    /\ pc[p] = "awaitBusy"
    /\ \E answered \in BOOLEAN :
          LET r == IF answered /\ ProviderAccepts(loc[p])
                   THEN HandleBusy(rev, inp[p], loc[p],
                                   QueryBusy(loc[p].timeMin, loc[p].timeMax))
                   ELSE ProviderFailure("queryBusy", loc[p])
          IN  /\ pc' = [pc EXCEPT ![p] = r.pc]
              /\ loc' = [loc EXCEPT ![p] = IF r.pc = "done" THEN loc[p] ELSE r.loc]
              /\ resp' = [resp EXCEPT ![p] = r.resp]
              /\ calls' = [calls EXCEPT ![p] = @ \o r.call]
    /\ UNCHANGED <<rev, API_KEY, serverZone, unit, events, inp, roundTrip>>

\* events.insert returns: the event is in the calendar, or the call failed.
InsertReturn(p) ==
    /\ pc[p] = "awaitInsert"
    /\ \E inserted \in BOOLEAN :
          IF inserted /\ ProviderAccepts(loc[p])
          THEN /\ events' = events (+) SetToBag({[start |-> loc[p].start, end |-> loc[p].end]})
               /\ resp' = [resp EXCEPT ![p] = CreatedResp(rev, loc[p])]
               /\ pc' = [pc EXCEPT ![p] = "done"]
               /\ calls' = calls
          ELSE LET r == ProviderFailure("insertEvent", loc[p])
               IN  /\ events' = events
                   /\ resp' = [resp EXCEPT ![p] = r.resp]
                   /\ pc' = [pc EXCEPT ![p] = r.pc]
                   /\ calls' = [calls EXCEPT ![p] = @ \o r.call]
    /\ UNCHANGED <<rev, API_KEY, serverZone, unit, inp, loc, roundTrip>>

\* The response is sent and the activation is over.
Complete(p) ==
    /\ pc[p] = "done"
    /\ pc' = [pc EXCEPT ![p] = "idle"]
    /\ inp' = [inp EXCEPT ![p] = NoRequest]
    /\ loc' = [loc EXCEPT ![p] = NoLoc]
    /\ resp' = [resp EXCEPT ![p] = NoResp]
    /\ calls' = [calls EXCEPT ![p] = <<>>]
    /\ roundTrip' = [roundTrip EXCEPT ![p] = FALSE]
    /\ UNCHANGED <<rev, API_KEY, serverZone, unit, events>>

Next ==
    \E p \in SeqProcs :
        \/ Receive(p)
        \/ BookListedSlot(p)
        \/ BusyReturn(p)
        \/ InsertReturn(p)
        \/ Complete(p)

Spec == Init /\ [][Next]_vars

\* ------------------------------------------------------- reading a response
Done(p) == pc[p] = "done"
IsBooking(p) == inp[p].op = "book"
IsListing(p) == inp[p].op = "list"
Created(p) == Done(p) /\ IsBooking(p) /\ resp[p].status = 200 /\ resp[p].success
Conflict(p) == Done(p) /\ IsBooking(p) /\ resp[p].status = 409
Rejected(p) == Done(p) /\ resp[p].status = 400
ProviderError(p) == Done(p) /\ resp[p].status = 500
Called(p, what) == \E k \in 1..Len(calls[p]) : calls[p][k] = what

\* Two calendar events that overlap: two different intervals, or one interval
\* inserted twice.
DoubleBooked ==
    \E a \in BagToSet(events) :
        \/ CopiesIn(a, events) >= 2
        \/ \E b \in BagToSet(events) :
              a # b /\ a.start < b.end /\ b.start < a.end

\* --------------------------------------------------------------------- C1
\* C1: in every CreateBooking attempt insertEvent is called only after a
\* queryBusy of the same attempt returned and no busy interval of the calendar
\* overlaps the candidate interval; an attempt answered 409 never called
\* insertEvent.
C1_InsertOnlyAfterConflictCheck ==
    \A p \in Procs :
        /\ (IsBooking(p) /\ Called(p, "insertEvent")) =>
              /\ calls[p] = <<"queryBusy", "insertEvent">>
              /\ pc[p] = "awaitInsert" =>
                    \A e \in BagToSet(events) :
                        ~(loc[p].start < e.end /\ e.start < loc[p].end)
        /\ Conflict(p) => ~Called(p, "insertEvent")

\* --------------------------------------------------------------------- C2
\* C2: with attempts handled one after another, no two events of the calendar
\* overlap.
C2_NoDoubleBooking == ~DoubleBooked

\* --------------------------------------------------------------------- C3
\* C3: a booking of a listed slot, issued right after the listing with the
\* listing's date, service and durationMinutes, is neither rejected nor answered
\* Conflict: it is created unless a provider call fails.
C3_RoundTrip ==
    \A p \in Procs :
        (Done(p) /\ roundTrip[p]) => (Created(p) \/ ProviderError(p))

\* ---------------------------------------------- the rules, stated on their own
\* The weekday of a day number, 0 = Monday .. 6 = Sunday (1970-01-01 was a
\* Thursday).
DayOfWeek(n) == (n + 3) % 7

\* Monday, Thursday or Friday.
OnAllowedWeekday(n) == DayOfWeek(n) \in {0, 3, 4}

\* A Monday with no later Monday in its month.
IsLastMondayOfItsMonth(n) ==
    DayOfWeek(n) = 0 /\ CivilFromDays(n + 7).m # CivilFromDays(n).m

BookableDay(n) == OnAllowedWeekday(n) /\ ~IsLastMondayOfItsMonth(n)

\* A date text of the YYYY-MM-DD shape that names a day of the calendar.
RealDate(date) ==
    /\ date.shape = "YYYY-MM-DD"
    /\ date.m \in 1..12
    /\ date.d \in 1..DaysInMonth(date.y, date.m)

DayOf(date) == DaysFromCivil(date.y, date.m, date.d)

\* A time text of the HH:MM shape that names a minute of the day.
RealTime(time) == time.shape = "HH:MM" /\ time.h \in 0..23 /\ time.mi \in 0..59

\* The day and the minute of the day of an instant on the clinic's clock.
ClinicDay(instant) == (instant + ClinicOffset) \div 1440
ClinicMinute(instant) == (instant + ClinicOffset) % 1440

\* An explicit durationMinutes the spec accepts: one of 15, 30, 60.
ValidExplicit(durationMinutes) ==
    durationMinutes.given /\ durationMinutes.n \in {15, 30, 60}

\* name, phone, date and time present and date and time well formed.
FieldsValid(i) ==
    i.name # "" /\ i.phone # "" /\ RealDate(i.date) /\ RealTime(i.time)

\* The duration the spec resolves: explicit, else the service's, else the
\* default; and the tag of the branch.  /create-booking documents the service
\* "Konsultacija" for a request that names none.
EffectiveService(i) ==
    IF i.op = "book" /\ i.service = "" THEN "Konsultacija" ELSE i.service

SpecDuration(i) ==
    IF i.durationMinutes.given THEN i.durationMinutes.n
    ELSE IF EffectiveService(i) \in DOMAIN SERVICE_DURATIONS
    THEN SERVICE_DURATIONS[EffectiveService(i)]
    ELSE DEFAULT_DURATION_MINUTES

SpecSource(i) ==
    IF i.durationMinutes.given THEN "durationMinutes"
    ELSE IF EffectiveService(i) \in DOMAIN SERVICE_DURATIONS THEN "service"
    ELSE "default"

DurationValid(i) == ~i.durationMinutes.given \/ ValidExplicit(i.durationMinutes)

\* --------------------------------------------------------------------- C4
\* C4: every event of the calendar lies on a Monday, Thursday or Friday that is
\* not the last Monday of its month; a booking for a date that is not bookable
\* never calls insertEvent and, when its fields and its duration are valid, is
\* answered 400 with the day rule's reason.
C4_EventsOnBookableDays ==
    /\ \A e \in BagToSet(events) : BookableDay(ClinicDay(e.start))
    /\ \A p \in Procs :
          (IsBooking(p) /\ RealDate(inp[p].date) /\ ~BookableDay(DayOf(inp[p].date))) =>
              /\ ~Called(p, "insertEvent")
              /\ (FieldsValid(inp[p]) /\ DurationValid(inp[p])) =>
                    /\ Rejected(p)
                    /\ resp[p].error =
                          IF ~OnAllowedWeekday(DayOf(inp[p].date))
                          THEN "Clinic does not work this day (allowed: Mon/Thu/Fri)."
                          ELSE "Surgeon day. Please schedule via administrator."

\* --------------------------------------------------------------------- C5
\* C5: every event of the calendar starts at or after 08:00 and ends at or
\* before 17:00 of its day; a booking for a bookable date with valid fields and
\* duration whose interval does not fit the work window makes no provider call
\* and is answered 400 with the working-hours message.
C5_EventsInsideWorkWindow ==
    /\ \A e \in BagToSet(events) :
          /\ ClinicMinute(e.start) >= 8 * 60
          /\ ClinicMinute(e.start) + (e.end - e.start) <= 17 * 60
    /\ \A p \in Procs :
          (/\ IsBooking(p)
           /\ FieldsValid(inp[p])
           /\ DurationValid(inp[p])
           /\ BookableDay(DayOf(inp[p].date))
           /\ \/ toMinutes(inp[p].time) < 8 * 60
              \/ toMinutes(inp[p].time) + SpecDuration(inp[p]) > 17 * 60) =>
              /\ calls[p] = <<>>
              /\ Rejected(p)
              /\ resp[p].error = "Outside working hours (08:00-17:00)."

\* --------------------------------------------------------------------- C6
\* C6: a booking whose name, phone, date or time is missing, or whose date or
\* time is malformed, is answered 400 without any provider call, whatever the
\* state of the calendar (so repeating it gives the same answer).
C6_ValidationBeforeProvider ==
    \A p \in Procs :
        (IsBooking(p) /\ ( \/ inp[p].name = ""
                           \/ inp[p].phone = ""
                           \/ inp[p].date.shape # "YYYY-MM-DD"
                           \/ inp[p].time.shape # "HH:MM")) =>
            (calls[p] = <<>> /\ Rejected(p))

\* --------------------------------------------------------------------- C7
\* C7: a listing for a real date that is not bookable, with an absent or valid
\* durationMinutes, is answered 200 with allowed = false, no slot and the reason
\* of the exclusion.
C7_NotBookableListing ==
    \A p \in Procs :
        (/\ IsListing(p)
         /\ RealDate(inp[p].date)
         /\ ~BookableDay(DayOf(inp[p].date))
         /\ (~inp[p].durationMinutes.given \/ ValidExplicit(inp[p].durationMinutes))) =>
            /\ Done(p)
            /\ resp[p].status = 200
            /\ resp[p].ok
            /\ ~resp[p].allowed
            /\ resp[p].slots = <<>>
            /\ resp[p].reason =
                  IF ~OnAllowedWeekday(DayOf(inp[p].date))
                  THEN "Clinic does not work this day (allowed: Mon/Thu/Fri)."
                  ELSE "Surgeon day (manual scheduling via administrator)."

\* --------------------------------------------------------------------- C8
\* The grid of the spec for a duration: 08:00, 08:15, ... up to 17:00 less the
\* duration; no slot for a duration that is not a number.
SpecGrid(dur) ==
    LET n == IF dur = NaN \/ 17 * 60 - dur < 8 * 60
             THEN 0
             ELSE (17 * 60 - dur - 8 * 60) \div 15 + 1
    IN  [k \in 1..n |-> TimeStr((8 * 60 + 15 * (k - 1)) \div 60, (8 * 60 + 15 * (k - 1)) % 60)]

\* No event of the calendar overlaps [t, t + dur) of the date on the clinic's
\* clock.
SlotIsFree(date, t, dur) ==
    LET start == DayOf(date) * 1440 + toMinutes(t) - ClinicOffset
    IN  \A e \in BagToSet(events) : ~(start < e.end /\ e.start < start + dur)

\* C8: a listing for a bookable date with a valid duration is answered 200 with
\* allowed = true unless the provider fails, and the slots of every such answer
\* are the grid of the resolved duration, in order, less the slots whose
\* interval overlaps an event of the calendar; on an empty calendar a duration
\* of 15 gives the 36 slots 08:00 .. 16:45.
C8_SlotsAreFreeGrid ==
    \A p \in Procs :
        /\ (/\ IsListing(p)
            /\ Done(p)
            /\ RealDate(inp[p].date)
            /\ BookableDay(DayOf(inp[p].date))
            /\ DurationValid(inp[p])
            /\ ~ProviderError(p)) => (resp[p].status = 200 /\ resp[p].allowed)
        /\ (IsListing(p) /\ Done(p) /\ resp[p].status = 200 /\ resp[p].allowed) =>
              LET dur == resp[p].durationMinutes
                  free(t) == SlotIsFree(inp[p].date, t, dur)
              IN  /\ resp[p].slots = SelectSeq(SpecGrid(dur), free)
                  /\ (events = EmptyBag /\ dur = 15) =>
                        /\ Len(resp[p].slots) = 36
                        /\ resp[p].slots[1] = TimeStr(8, 0)
                        /\ resp[p].slots[36] = TimeStr(16, 45)

\* A listing that lost some slots of its grid, but not all, to events.
C8_Witness ==
    \E p \in Procs :
        /\ IsListing(p) /\ Done(p) /\ resp[p].status = 200 /\ resp[p].allowed
        /\ Len(resp[p].slots) > 0
        /\ Len(resp[p].slots) < Len(SpecGrid(resp[p].durationMinutes))

\* --------------------------------------------------------------------- C9
\* C9: the duration of a listing answered with slots, and of a created booking,
\* is the explicit durationMinutes when one is given, else the mapped duration
\* of a known service, else the default; and the response's durationSource names
\* that branch.
C9_DurationPrecedence ==
    \A p \in Procs :
        /\ (IsListing(p) /\ Done(p) /\ resp[p].status = 200 /\ resp[p].allowed
            /\ DurationValid(inp[p])) =>
              /\ resp[p].durationMinutes = SpecDuration(inp[p])
              /\ resp[p].durationSource = SpecSource(inp[p])
        /\ (Created(p) /\ DurationValid(inp[p])) =>
              /\ loc[p].end - loc[p].start = SpecDuration(inp[p])
              /\ resp[p].durationSource = SpecSource(inp[p])

\* -------------------------------------------------------------------- C10
\* C10: a request with an explicit durationMinutes that is not one of 15, 30, 60
\* is answered 400 without any provider call: it gets no slot list and creates
\* no event.
C10_InvalidDurationRejected ==
    \A p \in Procs :
        (inp[p].op # "" /\ inp[p].durationMinutes.given
         /\ ~ValidExplicit(inp[p].durationMinutes)) =>
            (calls[p] = <<>> /\ Rejected(p))

\* -------------------------------------------------------------------- C11
\* Date texts of the YYYY-MM-DD shape that name no day of the calendar:
\* February 30 and month 13.
UnrealDates == {DateStr(2026, 2, 30), DateStr(2026, 13, 1)}

\* Requests with such a date, next to requests for Thursday 2026-02-26.
UnrealDateRequests ==
    [op : {"book", "list"}, apiKey : {""}, name : {"Jonas"}, phone : {"+37060000000"},
     date : UnrealDates \cup {DateStr(2026, 2, 26)},
     time : {TimeStr(16, 0), TimeStr(16, 45)},
     service : {"", "Konsultacija"}, durationMinutes : {DurAbsent}]

ReceiveUnrealDate(p) ==
    /\ pc[p] = "idle"
    /\ \E i \in UnrealDateRequests : Start(p, i, FALSE)

NextUnrealDate ==
    \E p \in SeqProcs :
        \/ ReceiveUnrealDate(p)
        \/ BusyReturn(p)
        \/ InsertReturn(p)
        \/ Complete(p)

SpecUnrealDate == Init /\ [][NextUnrealDate]_vars

\* The messages with which the handlers reject a date.
DateErrors == {"Invalid date. Use YYYY-MM-DD", "Invalid date", "Invalid date/time format"}

\* C11: a request whose date has the YYYY-MM-DD shape but names no day of the
\* calendar is answered 400 with a date error and without a provider call, by
\* the listing and by the booking; and no event lies on a day that no request
\* named.
C11_UnrealDateRejected ==
    /\ \A p \in Procs :
          (inp[p].op # "" /\ inp[p].date.shape = "YYYY-MM-DD" /\ ~RealDate(inp[p].date)) =>
              /\ calls[p] = <<>>
              /\ Rejected(p)
              /\ resp[p].error \in DateErrors
    /\ \A e \in BagToSet(events) : ClinicDay(e.start) = DayOf(DateStr(2026, 2, 26))

\* -------------------------------------------------------------------- C12
\* The number of calls of one kind an attempt has made.
CallCount(p, what) == Cardinality({k \in 1..Len(calls[p]) : calls[p][k] = what})

\* C12: a booking attempt calls insertEvent at most once and queryBusy at most
\* once; an attempt whose insertEvent failed has ended with a 5xx answer after
\* that single insert, and an attempt whose queryBusy failed has ended with a
\* 5xx answer without any insertEvent.
C12_ProviderFailureNotRetried ==
    \A p \in Procs :
        IsBooking(p) =>
            /\ CallCount(p, "insertEvent") <= 1
            /\ CallCount(p, "queryBusy") <= 1
            /\ resp[p].details = "insertEvent" =>
                  /\ ProviderError(p)
                  /\ CallCount(p, "insertEvent") = 1
            /\ resp[p].details = "queryBusy" =>
                  /\ ProviderError(p)
                  /\ CallCount(p, "insertEvent") = 0

\* A booking whose queryBusy succeeded and whose insertEvent failed.
C12_Witness ==
    \E p \in Procs :
        /\ IsBooking(p)
        /\ resp[p].details = "insertEvent"
        /\ calls[p] = <<"queryBusy", "insertEvent">>

\* -------------------------------------------------------------------- C13
\* The server with or without a configured API key.
InitAuth ==
    /\ rev \in Revisions
    /\ API_KEY \in {"", "secret"}
    /\ serverZone = ClinicOffset
    /\ events = EmptyBag
    /\ pc = [p \in Procs |-> "idle"]
    /\ inp = [p \in Procs |-> NoRequest]
    /\ loc = [p \in Procs |-> NoLoc]
    /\ resp = [p \in Procs |-> NoResp]
    /\ calls = [p \in Procs |-> <<>>]
    /\ roundTrip = [p \in Procs |-> FALSE]
    /\ unit = NoUnit

\* Requests without the header, with the key and with another text.
AuthRequests ==
    [op : {"book", "list"}, apiKey : {"", "secret", "wrong"}, name : {"Jonas"},
     phone : {"+37060000000"}, date : {DateStr(2026, 2, 24), DateStr(2026, 2, 26)},
     time : {TimeStr(16, 0)}, service : {"Konsultacija"}, durationMinutes : {DurAbsent}]

ReceiveAuth(p) ==
    /\ pc[p] = "idle"
    /\ \E i \in AuthRequests : Start(p, i, FALSE)

NextAuth ==
    \E p \in SeqProcs :
        \/ ReceiveAuth(p)
        \/ BusyReturn(p)
        \/ InsertReturn(p)
        \/ Complete(p)

SpecAuth == InitAuth /\ [][NextAuth]_vars

\* C13: with an API key configured, a request whose x-api-key header is absent
\* or differs from the key is answered 401 and makes no provider call, and a
\* request with the key is not answered 401; with no key configured no request
\* is answered 401.
C13_ApiKeyGate ==
    \A p \in Procs :
        inp[p].op # "" =>
            IF API_KEY # "" /\ inp[p].apiKey # API_KEY
            THEN Done(p) /\ resp[p].status = 401 /\ calls[p] = <<>>
            ELSE resp[p].status # 401

\* A request without the header refused by a server with a key.
C13_Witness ==
    \E p \in Procs :
        API_KEY = "secret" /\ inp[p].op # "" /\ inp[p].apiKey = "" /\ resp[p].status = 401

\* -------------------------------------------------------------------- C14
\* Booking requests for Thursday 2026-02-26 whose intervals overlap or coincide.
RaceRequests ==
    [op : {"book"}, apiKey : {""}, name : {"Jonas"}, phone : {"+37060000000"},
     date : {DateStr(2026, 2, 26)}, time : {TimeStr(16, 0), TimeStr(16, 45)},
     service : {"Konsultacija", "Vizitas"}, durationMinutes : {DurAbsent}]

ReceiveRace(p) ==
    /\ pc[p] = "idle"
    /\ \E i \in RaceRequests : Start(p, i, FALSE)

\* Two handler activations interleave at their awaits.
NextRace ==
    \E p \in Procs :
        \/ ReceiveRace(p)
        \/ BusyReturn(p)
        \/ InsertReturn(p)
        \/ Complete(p)

SpecRace == Init /\ [][NextRace]_vars

\* The insert of activation p succeeds.
InsertSucceeds(p) == InsertReturn(p) /\ resp'[p].success

\* The intervals of two activations overlap.
SameSlot(p, q) == loc[p].start < loc[q].end /\ loc[q].start < loc[p].end

\* C14: an attempt that has passed its conflict check and waits for its insert
\* can have the insert succeed whatever the calendar has come to hold since the
\* check, in particular after a concurrent attempt for an overlapping interval
\* has inserted; and two created bookings of overlapping intervals leave two
\* overlapping events in the calendar.
C14_CheckThenActRace ==
    /\ \A p \in Procs :
          (pc[p] = "awaitInsert" /\ loc[p].start # NaN /\ loc[p].end # NaN) =>
              ENABLED InsertSucceeds(p)
    /\ \A p, q \in Procs :
          (p # q /\ Created(p) /\ Created(q) /\ SameSlot(p, q)) => DoubleBooked

\* Two concurrent attempts that both queried, both inserted and were both
\* answered Created, with two overlapping events in the calendar.
C14_Witness ==
    /\ \A p \in Procs : Created(p) /\ calls[p] = <<"queryBusy", "insertEvent">>
    /\ SameSlot(1, 2)
    /\ DoubleBooked

\* -------------------------------------------------------------------- C15
\* The months of the day-rule checks, all on winter time: 28, 29, 30 and 31
\* days; November 2026 ends on a Monday.
DayMonths == {<<2024, 2>>, <<2025, 12>>, <<2026, 1>>, <<2026, 2>>, <<2026, 11>>}

DayDates == UNION {{DateStr(ym[1], ym[2], d) : d \in 1..DaysInMonth(ym[1], ym[2])} : ym \in DayMonths}

\* Listings for every day of these months.
DayRequests ==
    [op : {"list"}, apiKey : {""}, name : {""}, phone : {""}, date : DayDates,
     time : {NoTime}, service : {"Konsultacija"}, durationMinutes : {DurAbsent}]

ReceiveDay(p) ==
    /\ pc[p] = "idle"
    /\ \E i \in DayRequests : Start(p, i, FALSE)

NextDay ==
    \E p \in SeqProcs :
        \/ ReceiveDay(p)
        \/ BusyReturn(p)
        \/ Complete(p)

SpecDay == Init /\ [][NextDay]_vars

\* The day decision of the handlers: the weekday rule, then the surgeon-day
\* rule.
checkDayAvailability(r, date) ==
    IF r = "second"
    THEN IF ~isWeekdayAllowed2(LuxonDay(date)) THEN "weekday"
         ELSE IF isSurgeonDay2(LuxonDay(date)) THEN "surgeon-day"
         ELSE "allowed"
    ELSE IF ~isWeekdayAllowed(JsDay(date)) THEN "weekday"
         ELSE IF isSurgeonDay(JsDay(date)) THEN "surgeon-day"
         ELSE "allowed"

\* The two rules taken in the other order.
checkDayAvailabilitySwapped(r, date) ==
    IF r = "second"
    THEN IF isSurgeonDay2(LuxonDay(date)) THEN "surgeon-day"
         ELSE IF ~isWeekdayAllowed2(LuxonDay(date)) THEN "weekday"
         ELSE "allowed"
    ELSE IF isSurgeonDay(JsDay(date)) THEN "surgeon-day"
         ELSE IF ~isWeekdayAllowed(JsDay(date)) THEN "weekday"
         ELSE "allowed"

\* The decision the spec states for a day number.
SpecDayDecision(n) ==
    IF ~OnAllowedWeekday(n) THEN "weekday"
    ELSE IF IsLastMondayOfItsMonth(n) THEN "surgeon-day"
    ELSE "allowed"

\* C15: for every date the handlers' day decision is weekday when the day is
\* not a Monday, Thursday or Friday, else surgeon-day when it is the last Monday
\* of its month, else allowed; the listing is answered accordingly (not allowed,
\* with that rule's reason where the answer carries one, or it goes on to the
\* provider); and taking the two rules in the other order gives the same
\* allowed / not allowed outcome.
C15_DayDecision ==
    \A p \in Procs :
        (IsListing(p) /\ RealDate(inp[p].date)) =>
            LET expected == SpecDayDecision(DayOf(inp[p].date))
                decision == checkDayAvailability(rev, inp[p].date)
            IN  /\ decision = expected
                /\ (checkDayAvailabilitySwapped(rev, inp[p].date) = "allowed")
                      <=> (decision = "allowed")
                /\ expected = "allowed" =>
                      \/ pc[p] = "awaitBusy"
                      \/ Done(p) /\ resp[p].status = 200 /\ resp[p].allowed
                      \/ ProviderError(p)
                /\ expected # "allowed" =>
                      /\ Done(p) /\ resp[p].status = 200 /\ ~resp[p].allowed
                      /\ calls[p] = <<>>
                      /\ rev = "first" =>
                            resp[p].reason =
                                IF expected = "weekday"
                                THEN "Clinic does not work this day (allowed: Mon/Thu/Fri)."
                                ELSE "Surgeon day (manual scheduling via administrator)."

\* A listing for a last Monday (30 November 2026, also the month's last day)
\* answered not allowed with the surgeon-day reason.
C15_Witness ==
    \E p \in Procs :
        /\ IsListing(p) /\ Done(p)
        /\ inp[p].date = DateStr(2026, 11, 30)
        /\ ~resp[p].allowed
        /\ resp[p].reason = "Surgeon day (manual scheduling via administrator)."

\* -------------------------------------------------------------------- C16
\* Arguments of generateSlots: work windows of up to two hours (one that ends
\* before it starts), steps and durations that divide the window or do not.
SlotArgs ==
    {<<ws, we, step, dur>> :
        ws \in {TimeStr(8, 0), TimeStr(8, 10)},
        we \in {TimeStr(7, 30), TimeStr(8, 10), TimeStr(9, 0), TimeStr(9, 50)},
        step \in {5, 7, 15, 20},
        dur \in {1, 15, 30, 60, 61, 120}}

\* The state before one call of a helper on its own.
InitUnit(fn, argsSet) ==
    /\ rev \in {"first", "second"}
    /\ API_KEY = ""
    /\ serverZone = ClinicOffset
    /\ events = EmptyBag
    /\ pc = [p \in Procs |-> "idle"]
    /\ inp = [p \in Procs |-> NoRequest]
    /\ loc = [p \in Procs |-> NoLoc]
    /\ resp = [p \in Procs |-> NoResp]
    /\ calls = [p \in Procs |-> <<>>]
    /\ roundTrip = [p \in Procs |-> FALSE]
    /\ unit \in [fn : {fn}, args : argsSet, returned : {FALSE}, result : {<<>>}]

\* The call returns its result.
Return(result) ==
    /\ ~unit.returned
    /\ unit' = [unit EXCEPT !.returned = TRUE, !.result = result]
    /\ UNCHANGED <<rev, API_KEY, serverZone, events, pc, inp, loc, resp, calls, roundTrip>>

InitSlots == InitUnit("generateSlots", SlotArgs)

CallGenerateSlots ==
    Return(generateSlots(unit.args[1], unit.args[2], unit.args[3], unit.args[4]))

SpecSlots == InitSlots /\ [][CallGenerateSlots]_vars

\* C16: generateSlots returns the ascending sequence workStart, workStart +
\* step, ... of all grid times t with workStart <= t <= workEnd - duration:
\* every slot lies in that range, the first is workStart, consecutive slots are
\* step minutes apart, no grid time of the range is missing, and there is no
\* slot when the duration is longer than the window.
C16_GenerateSlotsGrid ==
    (unit.fn = "generateSlots" /\ unit.returned) =>
        LET workStart == toMinutes(unit.args[1])
            workEnd == toMinutes(unit.args[2])
            step == unit.args[3]
            duration == unit.args[4]
            slots == unit.result
            at(k) == toMinutes(slots[k])
        IN  /\ \A k \in 1..Len(slots) :
                  /\ slots[k].shape = "HH:MM"
                  /\ slots[k].h \in 0..23 /\ slots[k].mi \in 0..59
                  /\ workStart <= at(k) /\ at(k) <= workEnd - duration
            /\ Len(slots) > 0 => at(1) = workStart
            /\ \A k \in 1..(Len(slots) - 1) : at(k + 1) = at(k) + step
            /\ \A t \in workStart..(workEnd - duration) :
                  (t - workStart) % step = 0 => \E k \in 1..Len(slots) : at(k) = t
            /\ duration > workEnd - workStart => slots = <<>>

\* A call whose last slot starts exactly at workEnd - duration, after others.
C16_Witness ==
    /\ unit.fn = "generateSlots" /\ unit.returned
    /\ Len(unit.result) > 2
    /\ toMinutes(unit.result[Len(unit.result)]) = toMinutes(unit.args[2]) - unit.args[4]

\* -------------------------------------------------------------------- C17
\* The largest instant of the interval checks.
MaxInstant == 3

\* Two intervals [a, b) and [c, d) with ends in 0..MaxInstant, empty ones
\* included.
OverlapArgs ==
    {<<a, b, c, d>> \in (0..MaxInstant) \X (0..MaxInstant) \X (0..MaxInstant) \X (0..MaxInstant) :
        a <= b /\ c <= d}

InitOverlaps == InitUnit("overlaps", OverlapArgs)

\* overlaps is called on the two intervals in both orders, and hasConflict on
\* an empty busy list and on the busy list holding the second interval.
CallOverlaps ==
    LET a == unit.args[1]
        b == unit.args[2]
        c == unit.args[3]
        d == unit.args[4]
    IN  Return([forward |-> overlaps(a, b, c, d),
                backward |-> overlaps(c, d, a, b),
                none |-> hasConflict({}, a, b),
                one |-> hasConflict({[start |-> c, end |-> d]}, a, b)])

SpecOverlaps == InitOverlaps /\ [][CallOverlaps]_vars

\* C17: overlaps gives the same answer with its two intervals exchanged; two
\* intervals of which one ends exactly when the other starts do not overlap;
\* two intervals that are not empty overlap exactly when they share an instant;
\* hasConflict is false on an empty busy list and is overlaps on a list of one.
C17_OverlapsSymmetric ==
    (unit.fn = "overlaps" /\ unit.returned) =>
        LET a == unit.args[1]
            b == unit.args[2]
            c == unit.args[3]
            d == unit.args[4]
            r == unit.result
        IN  /\ r.forward = r.backward
            /\ (b = c \/ d = a) => ~r.forward
            /\ (a < b /\ c < d) =>
                  (r.forward <=> \E t \in 0..MaxInstant : a <= t /\ t < b /\ c <= t /\ t < d)
            /\ ~r.none
            /\ r.one = r.forward

\* Two intervals that only touch, [0, 1) and [1, 2), found not to overlap in
\* either order.
C17_Witness ==
    /\ unit.fn = "overlaps" /\ unit.returned
    /\ unit.args = <<0, 1, 1, 2>>
    /\ ~unit.result.forward /\ ~unit.result.backward

\* -------------------------------------------------------------------- C18
\* The months of 28 years: every month length with every weekday of its last
\* day; the function is called for the month, the second revision's with the
\* first or the fifteenth day of the month.
MonthArgs == {<<y, m, d>> : y \in 2000..2027, m \in 1..12, d \in {1, 15}}

InitLastMonday == InitUnit("getLastMondayOfMonth", MonthArgs)

CallLastMonday ==
    LET y == unit.args[1]
        m == unit.args[2]
        d == unit.args[3]
    IN  Return(IF rev = "second"
               THEN getLastMondayOfMonth2(DaysFromCivil(y, m, d))
               ELSE getLastMondayOfMonth(y, m))

SpecLastMonday == InitLastMonday /\ [][CallLastMonday]_vars

\* C18: getLastMondayOfMonth returns a day of the month it was asked for, that
\* day is a Monday and lies 0 to 6 days before the month's last day (so no later
\* Monday is in the month); it is the last day when that is a Monday; and for
\* February 2024 it is the 26th.
C18_LastMondayOfMonth ==
    (unit.fn = "getLastMondayOfMonth" /\ unit.returned) =>
        LET y == unit.args[1]
            m == unit.args[2]
            lastDay == DayOf(DateStr(y, m, DaysInMonth(y, m)))
            r == unit.result
        IN  /\ CivilFromDays(r).y = y /\ CivilFromDays(r).m = m
            /\ DayOfWeek(r) = 0
            /\ lastDay - r \in 0..6
            /\ DayOfWeek(lastDay) = 0 => r = lastDay
            /\ (y = 2024 /\ m = 2) => CivilFromDays(r).d = 26

\* A month that ends on a Sunday (May 2026): the last Monday is six days back.
C18_Witness ==
    /\ unit.fn = "getLastMondayOfMonth" /\ unit.returned
    /\ unit.args[1] = 2026 /\ unit.args[2] = 5
    /\ CivilFromDays(unit.result) = [y |-> 2026, m |-> 5, d |-> 25]

\* -------------------------------------------------------------------- C19
\* The server process runs in the clinic's time zone or in UTC.
InitTimezone ==
    /\ rev \in Revisions
    /\ API_KEY = ""
    /\ serverZone \in {0, ClinicOffset}
    /\ events = EmptyBag
    /\ pc = [p \in Procs |-> "idle"]
    /\ inp = [p \in Procs |-> NoRequest]
    /\ loc = [p \in Procs |-> NoLoc]
    /\ resp = [p \in Procs |-> NoResp]
    /\ calls = [p \in Procs |-> <<>>]
    /\ roundTrip = [p \in Procs |-> FALSE]
    /\ unit = NoUnit

TimezoneRequests ==
    [op : {"book", "list"}, apiKey : {""}, name : {"Jonas"}, phone : {"+37060000000"},
     date : {DateStr(2026, 2, 26)}, time : {TimeStr(16, 0), TimeStr(16, 45)},
     service : {"Konsultacija"}, durationMinutes : {DurAbsent}]

ReceiveTimezone(p) ==
    /\ pc[p] = "idle"
    /\ \E i \in TimezoneRequests : Start(p, i, FALSE)

NextTimezone ==
    \E p \in SeqProcs :
        \/ ReceiveTimezone(p)
        \/ BusyReturn(p)
        \/ InsertReturn(p)
        \/ Complete(p)

SpecTimezone == InitTimezone /\ [][NextTimezone]_vars

\* The instant of a date and a time on the clinic's clock.
ClinicInstant(date, time) == DayOf(date) * 1440 + toMinutes(time) - ClinicOffset

\* C19: whatever the time zone of the server process, the interval a booking
\* checks for conflicts and sends to insertEvent starts at the instant of the
\* requested date and time on the clinic's clock, and every event of the
\* calendar starts at such an instant; the day a listing queries starts at
\* midnight of the requested date on the clinic's clock.
C19_InstantsOnClinicClock ==
    /\ \A p \in Procs :
          (~IsBooking(p) /\ Called(p, "queryBusy")) =>
              loc[p].timeMin = ClinicInstant(inp[p].date, TimeStr(0, 0))
    /\ \A p \in Procs :
          (IsBooking(p) /\ FieldsValid(inp[p])
              /\ (Called(p, "queryBusy") \/ Called(p, "insertEvent"))) =>
              /\ loc[p].start = ClinicInstant(inp[p].date, inp[p].time)
              /\ loc[p].end = loc[p].start + loc[p].dur
    /\ \A e \in BagToSet(events) :
          \E i \in TimezoneRequests : e.start = ClinicInstant(i.date, i.time)

\* -------------------------------------------------------------------- C20
\* The gates of a booking attempt, in the order of the handler's text.
GateRank(at) ==
    CASE at = "idle" -> 0
      [] at = "awaitBusy" -> 1
      [] at = "awaitInsert" -> 2
      [] at = "done" -> 3

DayGateErrors ==
    {"Clinic does not work this day (allowed: Mon/Thu/Fri).",
     "Surgeon day. Please schedule via administrator."}

HoursGateErrors == {"Outside working hours (08:00-17:00)."}

IsPrefix(s, t) == Len(s) <= Len(t) /\ SubSeq(t, 1, Len(s)) = s

\* What holds of a booking attempt in every state.
SinglePassState(p) ==
    /\ ~Done(p) => resp[p] = NoResp
    /\ Done(p) =>
          /\ resp[p].status \in {200, 400, 409, 500}
          /\ resp[p].status = 200 => resp[p].success
    /\ calls[p] \in {<<>>, <<"queryBusy">>, <<"insertEvent">>, <<"queryBusy", "insertEvent">>}
    /\ pc[p] = "awaitBusy" => calls[p] = <<"queryBusy">>
    /\ pc[p] = "awaitInsert" => Called(p, "insertEvent")
    /\ Rejected(p) => calls[p] = <<>>
    /\ (Rejected(p) /\ resp[p].error \in DayGateErrors) =>
          FieldsValid(inp[p]) /\ DurationValid(inp[p])
    /\ (Rejected(p) /\ resp[p].error \in HoursGateErrors) =>
          FieldsValid(inp[p]) /\ DurationValid(inp[p]) /\ BookableDay(DayOf(inp[p].date))
    /\ Conflict(p) => calls[p] = <<"queryBusy">>
    /\ Created(p) => Called(p, "insertEvent")
    /\ (Done(p) /\ Called(p, "insertEvent")) => (Created(p) \/ ProviderError(p))

\* What holds of every step of a booking attempt.
SinglePassStep(p) ==
    /\ pc'[p] # pc[p] =>
          \/ GateRank(pc'[p]) > GateRank(pc[p])
          \/ pc[p] = "done" /\ pc'[p] = "idle"
    /\ resp'[p] # resp[p] =>
          \/ pc[p] # "done" /\ pc'[p] = "done"
          \/ pc[p] = "done" /\ pc'[p] = "idle"
    /\ (pc[p] # "idle" /\ pc'[p] # "idle") =>
          /\ inp'[p] = inp[p]
          /\ IsPrefix(calls[p], calls'[p])
    /\ (pc[p] = "awaitInsert" /\ pc'[p] = "done") =>
          LET created == resp'[p].status = 200 /\ resp'[p].success
              booked == [start |-> loc[p].start, end |-> loc[p].end]
          IN  /\ created <=> events' # events
              /\ created => events' = events (+) SetToBag({booked})
    /\ ~(pc[p] = "awaitInsert" /\ pc'[p] = "done") => events' = events

ReadOnlyState(p) ==
    /\ ~Called(p, "insertEvent")
    /\ calls[p] \in {<<>>, <<"queryBusy">>}
    /\ pc[p] # "awaitInsert"
    /\ Called(p, "queryBusy") =>
          /\ RealDate(inp[p].date)
          /\ BookableDay(DayOf(inp[p].date))
          /\ DurationValid(inp[p])
    /\ (Done(p) /\ resp[p].status = 400) => calls[p] = <<>>
    /\ (Done(p) /\ resp[p].status = 200 /\ ~resp[p].allowed) => calls[p] = <<>>

\* C21: a listing is read-only: it never calls insertEvent, no step of a
\* listing changes the events of the calendar, and its only provider call is
\* at most one queryBusy, made after the date was found well formed, the
\* duration resolved and the day found bookable; a listing answered with a
\* validation error or with allowed = false made no provider call.
C21_ListingReadOnly ==
    /\ [](\A p \in SeqProcs : IsListing(p) => ReadOnlyState(p))
    /\ [][\A p \in SeqProcs : IsListing(p) => events' = events]_vars

\* -------------------------------------------------------------------- C22
\* The date of the listings.
FilterDate == DateStr(2026, 2, 26)

\* Busy intervals of that day: on the grid and off it, short and long, one
\* as a booking of 16:00 for 60 minutes creates it, and one of the next day.
BusyUniverse ==
    {[start |-> ClinicInstant(FilterDate, TimeStr(8, 0)), end |-> ClinicInstant(FilterDate, TimeStr(8, 0)) + 15],
     [start |-> ClinicInstant(FilterDate, TimeStr(7, 45)) + 25, end |-> ClinicInstant(FilterDate, TimeStr(7, 45)) + 55],
     [start |-> ClinicInstant(FilterDate, TimeStr(8, 0)), end |-> ClinicInstant(FilterDate, TimeStr(16, 0))],
     [start |-> ClinicInstant(FilterDate, TimeStr(16, 0)), end |-> ClinicInstant(FilterDate, TimeStr(16, 0)) + 60],
     [start |-> ClinicInstant(FilterDate, TimeStr(16, 0)) + 1440, end |-> ClinicInstant(FilterDate, TimeStr(16, 0)) + 1500]}

\* A duration and two busy sets, the first a subset of the second.
FilterArgs ==
    {<<dur, B, B2>> \in {15, 30, 45, 60} \X (SUBSET BusyUniverse) \X (SUBSET BusyUniverse) :
        B \subseteq B2}

InitFilter == InitUnit("filter", FilterArgs)

\* The slot filter of the /free-slots handler of the revision, run once on each
\* of the two busy sets.
CallFilter ==
    LET i == [NoRequest EXCEPT !.op = "list", !.date = FilterDate]
        l == [NoLoc EXCEPT !.dur = unit.args[1]]
    IN  Return([small |-> HandleBusy(rev, i, l, unit.args[2]).resp.slots,
                large |-> HandleBusy(rev, i, l, unit.args[3]).resp.slots])

SpecFilter == InitFilter /\ [][CallFilter]_vars

RECURSIVE IsSubSeq(_, _)
\* s can be obtained from t by leaving elements out.
IsSubSeq(s, t) ==
    IF s = <<>> THEN TRUE
    ELSE IF t = <<>> THEN FALSE
    ELSE IF Head(s) = Head(t) THEN IsSubSeq(Tail(s), Tail(t))
    ELSE IsSubSeq(s, Tail(t))

\* C22: for the same date and duration, the slot list computed with a busy set
\* is a sub-sequence of the list computed with any subset of it: a further busy
\* interval, or the event of a created booking, never makes a slot appear.
C22_FilterMonotone ==
    (unit.fn = "filter" /\ unit.returned) =>
        /\ IsSubSeq(unit.result.large, unit.result.small)
        /\ \A k \in 1..Len(unit.result.large) :
              \E j \in 1..Len(unit.result.small) : unit.result.small[j] = unit.result.large[k]

\* A busy set with one more interval than its subset: slots are listed with
\* both, and fewer with the larger one.
C22_Witness ==
    /\ unit.fn = "filter" /\ unit.returned
    /\ Cardinality(unit.args[3]) = Cardinality(unit.args[2]) + 1
    /\ Len(unit.result.large) > 0
    /\ Len(unit.result.large) < Len(unit.result.small)

====
